---- MODULE Spec2Model ----
(***************************************************************************)
(* The task curriculum and reward engine of envs/env_trs_uni.py (class     *)
(* Env): task selection (curriculum / evaluation), task encoding, and the  *)
(* per-step reward state machine of _get_reward.                           *)
(*                                                                         *)
(* Task descriptors ("collect_wood_5") are modelled as the sequence of     *)
(* their underscore-separated words (<<"collect","wood","5">>), so that    *)
(* split('_') and '_'.join(words[:-1]) are operations on sequences.        *)
(* Python indices are 0-based, TLA+ sequences 1-based: element i of a      *)
(* Python list l is l[i + 1] here.                                         *)
(***************************************************************************)
EXTENDS Integers, Sequences, FiniteSets, TLC

VARIABLES
  target_achievements,       \* self.target_achievements (surface descriptors)
  target_achievements_base,  \* self.target_achievements_base
  isreptask,                 \* self.isreptask
  specify_task,              \* self._specify_task: "curri" or "eval"
  eval_task_seq,             \* self.eval_task_seq (<<>> until set_curriculum sets it)
  eval_id,                   \* self.eval_id
  task_idx,                  \* self.task_idx
  task_enc,                  \* self.task_enc
  task_steps,                \* self.task_steps
  task_progress,             \* self.task_progress (an IEEE double, see FloatAdd)
  player,                    \* self._player: "None" or "Player"
  achievements,              \* self._player.achievements
  unlocked,                  \* self._unlocked
  past_achievements,         \* self.past_achievements
  follow_achievements,       \* self.follow_achievements
  given_achievements,        \* self.given_achievements
  reward,                    \* value returned by the last _get_reward (0 after reset)
  inventory,                 \* self._player.inventory (NoDict while there is no player)
  decoded,                   \* words of the string the last _decode_task returned
  \* history variables (not program state)
  outcome,                   \* what the last operation did to the active task
  age,                       \* steps taken since the active task was assigned
  hits,                      \* qualifying increases since the active task was assigned
  resolutions,               \* reassignments (successes + timeouts) since reset
  resolved_idx,              \* the task index the last reassignment replaced (-1: none)
  evalRecent,                \* the last len-1 evaluation picks since the last switch
  passPicks,                 \* the indices picked in the current evaluation pass
  evalPos                    \* evaluation picks since the last switch, modulo len

vars == <<target_achievements, target_achievements_base, isreptask, specify_task,
          eval_task_seq, eval_id, task_idx, task_enc, task_steps, task_progress,
          player, achievements, unlocked, past_achievements, follow_achievements,
          given_achievements, reward, inventory, decoded, outcome, age, hits,
          resolutions,
          resolved_idx, evalRecent, passPicks, evalPos>>

(***************************************************************************)
(* Bounds of the exploration.                                              *)
(***************************************************************************)
\* decoy slots dummy0 .. dummy(MaxDummy-1) are the ones the random draw explores
MaxDummy == 1
\* an achievement count is explored up to what its tasks need plus MaxExtra
MaxExtra == 1
\* the first task of an episode that starts with a fresh inventory is followed
\* to its timeout; the other tasks, up to the MaxResolved-th reassignment of
\* the episode, for MaxTail steps each
MaxResolved == 2
MaxTail == 1
\* counters advance, and reset and set_curriculum are called, only in the
\* first MaxBusy steps of a task and in its last two steps before the
\* abandonment threshold; in between the player idles
MaxBusy == 11
\* the items the player is explored holding
MaxItems == 1

(***************************************************************************)
(* Module-level constants of env_trs_uni.py.                               *)
(***************************************************************************)
OBJS == <<"table", "furnace">>
MATS == <<"wood", "stone", "coal", "iron", "diamond", "drink">>
TOOLS == <<"sword", "pickaxe">>
\* np.unique(SYNONYMS.values()): the sorted synonym words
SYNONYM_WORDS == <<"gather">>
INSTRS == <<"collect", "make", "place">> \o SYNONYM_WORDS
COUNT == <<"2", "3", "4", "5", "6", "7", "8", "9", "10">>
ENC_ORDER == INSTRS \o OBJS \o MATS \o TOOLS \o COUNT
DUMMY_BITS == 10
DUMMY_TASKS == 2^DUMMY_BITS - 1
\* if self.task_steps > 300
TIMEOUT_STEPS == 300

(***************************************************************************)
(* The task lists get_synonym_tasks / get_repeat_tasks hand to __init__.   *)
(***************************************************************************)
VocabA == [surface |-> << <<"place", "table">>, <<"collect", "wood", "5">> >>,
           base    |-> << <<"place", "table">>, <<"collect", "wood", "5">> >>,
           isrep   |-> <<FALSE, TRUE>>]
VocabB == [surface |-> << <<"gather", "wood", "10">> >>,
           base    |-> << <<"collect", "wood", "10">> >>,
           isrep   |-> <<TRUE>>]
Vocabularies == {VocabA, VocabB}
\* a list with words outside the encoder's vocabulary, for the encoder alone
VocabC == [surface |-> << <<"eat", "cow">>, <<"make", "wood", "pickaxe">> >>,
           base    |-> << <<"eat", "cow">>, <<"make", "wood", "pickaxe">> >>,
           isrep   |-> <<FALSE, FALSE>>]
EncVocabularies == Vocabularies \cup {VocabC}

(***************************************************************************)
(* IEEE-754 binary64 arithmetic on the values task_progress takes.  A      *)
(* double d with 0 <= d < 4 that is a multiple of 2^-56 is the integer     *)
(* d * 2^56, written in base 2^19 as <<hi, mid, lo>>; 1.0 is <<2^18,0,0>>. *)
(***************************************************************************)
LIMB == 2^19

Norm(hi, mid, lo) ==
  LET m1 == mid + (lo \div LIMB)
  IN  <<hi + (m1 \div LIMB), m1 % LIMB, lo % LIMB>>

\* the unit in the last place of a value whose leading limb is hi
Ulp(hi) ==
  IF hi >= 2 * 262144 THEN 32
  ELSE IF hi >= 262144 THEN 16
  ELSE IF hi >= 131072 THEN 8
  ELSE IF hi >= 65536 THEN 4
  ELSE IF hi >= 32768 THEN 2
  ELSE 1

\* round to 53 significant bits, ties to even; sticky: a nonzero part below lo
RoundNearestEven(v, sticky) ==
  LET u == Ulp(v[1])
      r == v[3] % u
      q == v[3] \div u
      up == (2 * r > u) \/ (2 * r = u /\ (sticky \/ q % 2 = 1))
  IN  Norm(v[1], v[2], (v[3] - r) + (IF up THEN u ELSE 0))

Half(v) ==
  << v[1] \div 2,
     (v[1] % 2) * (LIMB \div 2) + (v[2] \div 2),
     (v[2] % 2) * (LIMB \div 2) + (v[3] \div 2) >>

FloatZero == <<0, 0, 0>>

\* a + b
FloatAdd(a, b) ==
  RoundNearestEven(Norm(a[1] + b[1], a[2] + b[2], a[3] + b[3]), FALSE)

\* 1.0 / float(n), for 2 <= n <= 16: long division of 2^57 by n, rounded
FloatInv(n) ==
  LET d1 == LIMB \div n
      r1 == LIMB % n
      d2 == (r1 * LIMB) \div n
      r2 == (r1 * LIMB) % n
      d3 == (r2 * LIMB) \div n
      r3 == (r2 * LIMB) % n
  IN  Half(RoundNearestEven(<<d1, d2, d3>>, r3 # 0))

\* a >= 1.0
FloatGE1(a) == a[1] >= 262144

\* float(word) for a count token
FloatOfToken(word) == 1 + CHOOSE i \in 1..Len(COUNT) : COUNT[i] = word

(***************************************************************************)
(* Helpers on descriptors and dictionaries.                                *)
(***************************************************************************)
Range(s) == {s[i] : i \in 1..Len(s)}
Last(s) == s[Len(s)]
\* '_'.join(words[:-1])
StripCount(words) == SubSeq(words, 1, Len(words) - 1)

RECURSIVE SumOver(_, _)
SumOver(f, S) ==
  IF S = {} THEN 0
  ELSE LET k == CHOOSE x \in S : TRUE IN f[k] + SumOver(f, S \ {k})
Total(f) == SumOver(f, DOMAIN f)

NumReal == Len(target_achievements)
RealIdx == 0..(NumReal - 1)

\* the key of given_achievements that update_given_ach increments for idx
DummyKey(i) == <<"dummy", i>>
GivenKey(idx) ==
  IF idx < NumReal THEN target_achievements[idx + 1]
  ELSE DummyKey(idx - NumReal)

\* the achievement the reward engine watches for real task index i (1-based)
WatchedOf(voc, i) ==
  IF voc.isrep[i] THEN StripCount(voc.base[i]) ELSE voc.base[i]
AchKeysOf(voc) == {WatchedOf(voc, i) : i \in 1..Len(voc.base)}
NeedOf(voc, i) == IF voc.isrep[i] THEN FloatOfToken(Last(voc.surface[i])) ELSE 1

CurVocab == [surface |-> target_achievements, base |-> target_achievements_base,
             isrep |-> isreptask]
\* the largest count explored for achievement key k
RECURSIVE MaxNeed(_, _, _)
MaxNeed(voc, k, i) ==
  IF i = 0 THEN 0
  ELSE LET rest == MaxNeed(voc, k, i - 1)
           mine == IF WatchedOf(voc, i) = k THEN NeedOf(voc, i) ELSE 0
       IN  IF mine > rest THEN mine ELSE rest
CountCap(k) == MaxNeed(CurVocab, k, NumReal) + MaxExtra

\* the task indices the curriculum's random draw explores
\* (np.random.choice over np.arange(len(target_achievements) + DUMMY_TASKS))
DrawnDummies ==
  {NumReal + i : i \in 0..((IF MaxDummy < DUMMY_TASKS THEN MaxDummy ELSE DUMMY_TASKS) - 1)}
DrawnIdx == RealIdx \cup DrawnDummies
GivenKeys == {GivenKey(idx) : idx \in DrawnIdx}

\* a mutation: the sequence holds the indices 1 .. n instead of 0 .. n-1
PermsFromOne(n) ==
  {p \in [1..n -> 1..n] : \A i, j \in 1..n : i # j => p[i] # p[j]}

\* a mutation: the sequence is refilled by draws with replacement
PermsWithReplacement(n) == [1..n -> 0..(n - 1)]

\* all orders np.random.shuffle can leave np.arange(n) in
Perms(n) ==
  {p \in [1..n -> 0..(n - 1)] : \A i, j \in 1..n : i # j => p[i] # p[j]}

(***************************************************************************)
(* Task encoding (_encode_task).  A vector of width len(ENC_ORDER) +       *)
(* DUMMY_BITS; position i (0-based) of the numpy array is task_enc[i + 1]. *)
(***************************************************************************)
EncWidth == Len(ENC_ORDER) + DUMMY_BITS

\* the outcome of np.random.choice([0, 1], size=DUMMY_BITS) and of
\* np.random.randint(DUMMY_BITS) that the episodes are explored with: no bit
\* drawn, position 0 (SpecEnc below covers every outcome)
DummyDraws ==
  {[bits |-> [j \in 1..DUMMY_BITS |-> 0], rdn |-> 0]}

\* a mutation: the vector of the previous task is returned
EncodeTaskStale(idx, draw) == task_enc

\* a mutation: the forced bit lands one position further left
ForcedBitOffByOne(rdn) == EncWidth - rdn - 1

\* encoding[-rdn_idx-1]: the position that is always set for a decoy
ForcedBit(rdn) == EncWidth - rdn

EncodeTask(idx, draw) ==
  IF idx < NumReal
  THEN LET task_words == Range(target_achievements[idx + 1])
       IN  [i \in 1..EncWidth |->
              IF i <= Len(ENC_ORDER) /\ ENC_ORDER[i] \in task_words THEN 1 ELSE 0]
  ELSE \* encoding[-DUMMY_BITS:] = dummy_enc; encoding[-rdn_idx-1] = 1
       [i \in 1..EncWidth |->
          IF i = ForcedBit(draw.rdn) THEN 1
          ELSE IF i > EncWidth - DUMMY_BITS
               THEN draw.bits[i - (EncWidth - DUMMY_BITS)]
               ELSE 0]

(***************************************************************************)
(* Task decoding (_decode_task).  A string is modelled as the sequence of  *)
(* its space-separated words: ' '.join(ws) is ws, 'dummy task' is          *)
(* <<"dummy", "task">>.                                                    *)
(***************************************************************************)
DUMMY_TEXT == <<"dummy", "task">>

\* task_enc[-DUMMY_BITS:]
TrailingBits == (EncWidth - DUMMY_BITS + 1)..EncWidth

\* [ENC_ORDER[int(i)] for i, c in enumerate(task_enc) if c], up to position i
RECURSIVE DecodeWords(_, _)
DecodeWords(enc, i) ==
  IF i = 0 THEN <<>>
  ELSE DecodeWords(enc, i - 1) \o (IF enc[i] # 0 THEN <<ENC_ORDER[i]>> ELSE <<>>)

\* a mutation: any set bit of the vector makes it a decoy
DecodeTaskAnyBit(enc) ==
  IF \E i \in 1..EncWidth : enc[i] > 0 THEN DUMMY_TEXT
  ELSE DecodeWords(enc, EncWidth)

DecodeTask(enc) ==
  IF \E i \in TrailingBits : enc[i] > 0 THEN DUMMY_TEXT
  ELSE DecodeWords(enc, EncWidth)

\* _obs: the 'task_enc' entry of the observation (the image is not modelled)
ObsTaskEnc == task_enc

(***************************************************************************)
(* Task selection.                                                         *)
(***************************************************************************)
\* the most recent n elements of s
LastN(s, n) == IF Len(s) <= n THEN s ELSE SubSeq(s, Len(s) - n + 1, Len(s))

\* self.eval_id >= len(self.target_achievements)
CursorExhausted(id, n) == id >= n

\* a mutation: the sequence is shuffled on every selector call
ShuffledAlways(seq, exhausted) == Perms(Len(seq))

\* the values eval_task_seq can have after the selector call:
\* np.random.shuffle(self.eval_task_seq) runs only when the cursor wrapped
ShuffledSeq(seq, exhausted) == IF exhausted THEN Perms(Len(seq)) ELSE {seq}

\* _specify_curri_task
SpecifyCurriTask ==
  \E idx \in DrawnIdx, draw \in DummyDraws :
    /\ task_idx' = idx
    /\ task_steps' = 0
    /\ task_enc' = EncodeTask(idx, draw)
    /\ UNCHANGED <<eval_task_seq, eval_id, evalRecent, passPicks, evalPos>>

\* _specify_eval_task
SpecifyEvalTask ==
  LET idx == eval_task_seq[eval_id + 1]
      nid == eval_id + 1
  IN  /\ task_idx' = idx
      /\ eval_id' = IF CursorExhausted(nid, NumReal) THEN nid % NumReal ELSE nid
      /\ eval_task_seq' \in ShuffledSeq(eval_task_seq, CursorExhausted(nid, NumReal))
      /\ task_steps' = 0
      /\ task_enc' = EncodeTask(idx, CHOOSE d \in DummyDraws : TRUE)
      /\ evalRecent' = LastN(Append(evalRecent, idx), NumReal - 1)
      /\ evalPos' = (evalPos + 1) % NumReal
      /\ passPicks' = IF (evalPos + 1) % NumReal = 0 THEN {}
                      ELSE passPicks \cup {idx}

\* self._specify_task()
SpecifyTask ==
  IF specify_task = "eval" THEN SpecifyEvalTask ELSE SpecifyCurriTask

\* a mutation: update_given_ach runs before the selector, on the old index
UpdateGivenAchStale(given, idx) == [given EXCEPT ![GivenKey(task_idx)] = @ + 1]

\* a mutation: the assignment is counted twice
UpdateGivenAchTwice(given, idx) == [given EXCEPT ![GivenKey(idx)] = @ + 2]

\* update_given_ach, applied to the dictionary given for task index idx
UpdateGivenAch(given, idx) == [given EXCEPT ![GivenKey(idx)] = @ + 1]

(***************************************************************************)
(* Construction: Env.__init__.                                             *)
(***************************************************************************)
NoDict == <<>>

InitWith(vocabularies) ==
  /\ \E voc \in vocabularies :
       /\ target_achievements = voc.surface
       /\ target_achievements_base = voc.base
       /\ isreptask = voc.isrep
  /\ specify_task = "curri"
  /\ eval_task_seq = <<>>
  /\ eval_id = 0
  /\ task_idx = 0
  /\ task_enc = [i \in 1..EncWidth |-> 0]
  /\ task_steps = 0
  /\ task_progress = FloatZero
  /\ player = "None"
  /\ achievements = NoDict
  /\ unlocked = {}
  /\ past_achievements = NoDict
  /\ follow_achievements = NoDict
  /\ given_achievements = NoDict
  /\ reward = 0
  /\ inventory = NoDict
  /\ decoded = <<>>
  /\ outcome = "init"
  /\ age = 0
  /\ hits = 0
  /\ resolutions = 0
  /\ resolved_idx = -1
  /\ evalRecent = <<>>
  /\ passPicks = {}
  /\ evalPos = 0

Init == InitWith(Vocabularies)

(***************************************************************************)
(* Env.reset.                                                              *)
(***************************************************************************)
\* the positions in a task at which anything but an idle step is explored
BusyStep == task_steps < MaxBusy \/ task_steps >= TIMEOUT_STEPS - 1

\* the inventory objects.Player(...) starts with
InventoryItems == {"wood"}
FreshInventory == [k \in InventoryItems |-> 0]

\* a mutation: the evaluation strategy does not prevent the carry-over
InheritsInAnyMode(mode, plr, coin) == plr # "None" /\ coin

\* self._specify_task != self._specify_eval_task and self._player
\*   and np.random.rand() < 0.5      (coin: the outcome of the draw)
Inherits(mode, plr, coin) == mode # "eval" /\ plr # "None" /\ coin

\* inventory = None ... inventory = self._player.inventory.copy()
InheritedInventory(coin) ==
  IF Inherits(specify_task, player, coin) THEN inventory ELSE NoDict

\* a mutation: the counts of the previous episode are kept
StaleFollow ==
  IF player = "None" THEN [k \in Range(target_achievements) |-> 0]
  ELSE follow_achievements

\* {k: 0 for k in self.target_achievements}
FreshFollow == [k \in Range(target_achievements) |-> 0]

Reset ==
  LET fresh == [k \in AchKeysOf(CurVocab) |-> 0]
      given0 == [k \in GivenKeys |-> 0]
  IN  /\ BusyStep
      /\ \E coin \in BOOLEAN :
           LET kept == InheritedInventory(coin)
           IN  \* if inventory: self._player.inventory = inventory
               inventory' = IF DOMAIN kept # {} THEN kept ELSE FreshInventory
      /\ player' = "Player"
      /\ achievements' = fresh
      /\ unlocked' = {}
      /\ past_achievements' = fresh
      /\ follow_achievements' = FreshFollow
      /\ SpecifyTask
      /\ given_achievements' = UpdateGivenAch(given0, task_idx')
      /\ task_progress' = FloatZero
      /\ reward' = 0
      /\ outcome' = "reset"
      /\ age' = 0
      /\ hits' = 0
      /\ resolutions' = 0
      /\ resolved_idx' = -1
      /\ UNCHANGED <<target_achievements, target_achievements_base, isreptask,
                     specify_task, decoded>>

(***************************************************************************)
(* Env.set_curriculum.                                                     *)
(***************************************************************************)
SetCurriculum(train) ==
  /\ BusyStep
  /\ IF train
     THEN /\ specify_task' = "curri"
          /\ UNCHANGED <<eval_task_seq, eval_id>>
          /\ evalRecent' = <<>>
          /\ passPicks' = {}
          /\ evalPos' = 0
     ELSE /\ eval_task_seq' \in Perms(NumReal)
          /\ eval_id' = 0
          /\ specify_task' = "eval"
          /\ evalRecent' = <<>>
          /\ passPicks' = {}
          /\ evalPos' = 0
  /\ reward' = 0
  /\ outcome' = "set_curriculum"
  /\ UNCHANGED <<target_achievements, target_achievements_base, isreptask,
                 task_idx, task_enc, task_steps, task_progress, player,
                 achievements, unlocked, past_achievements, follow_achievements,
                 given_achievements, inventory, decoded, age, hits,
                 resolutions, resolved_idx>>

(***************************************************************************)
(* Env.step: the simulation advances the player's achievement counters,    *)
(* then _get_reward runs on them.                                          *)
(***************************************************************************)
\* a mutation: the comparison admits a zero difference
QualifyingDeltaOrEqual(cur, past, k) == cur[k] - past[k] >= 0

\* self._player.achievements[k] - self.past_achievements[k] > 0
QualifyingDelta(cur, past, k) == cur[k] - past[k] > 0

\* a mutation: the abandonment threshold is off by one
TimedOutOffByOne(steps) == steps >= TIMEOUT_STEPS

\* if self.task_steps > 300
TimedOut(steps) == steps > TIMEOUT_STEPS

\* self.task_progress += 1.0 / float(task_words[-1])
AddProgress(progress, task_words) ==
  FloatAdd(progress, FloatInv(FloatOfToken(Last(task_words))))

\* a mutation: the comparison is strict
ProgressCompleteStrict(progress) == FloatGE1(progress) /\ progress # <<2^18, 0, 0>>

\* if self.task_progress >= 1.0
ProgressComplete(progress) == FloatGE1(progress)

\* a mutation: the snapshot is not refreshed on a step that resolved the task
SnapshotSkippedOnResolve(cur, past, resolved) == IF resolved THEN past ELSE cur

\* self.past_achievements = self._player.achievements.copy()
Snapshot(cur, past, resolved) == cur

\* a mutation: the reward is not reset at the start of the call
RewardCarried(completed, newly) == reward + (IF completed THEN 1 ELSE 0)

\* a mutation: each newly unlocked achievement is rewarded as well
RewardWithUnlocks(completed, newly) ==
  (IF completed THEN 1 ELSE 0) + Cardinality(newly)

\* reward = 0 ... reward += 1.0 ... return reward; newly: the achievements
\* unlocked in this step (bookkeeping, not part of the reward)
RewardOf(completed, newly) == IF completed THEN 1 ELSE 0

\* if self.task_idx < len(self.target_achievements)
IsRealTask(idx, n) == idx < n

\* a mutation: a completion is credited twice
CreditFollowTwice(follow, desc) == [follow EXCEPT ![desc] = @ + 2]

\* self.follow_achievements[task_desc] += 1
CreditFollow(follow, desc) == [follow EXCEPT ![desc] = @ + 1]

\* a mutation: a step with a qualifying increase does not count
StepsHeldOnHit(steps, delta) == IF delta THEN steps ELSE steps + 1

\* if task_failed: self.task_steps += 1
StepsAfterFailure(steps, delta) == steps + 1

\* a mutation: the selector runs at the end of every step
ResolvedOnEveryStep(completed, expired) == TRUE

\* the selector runs in the success branches (lines 172, 180) and in the
\* timeout branch (line 190), and nowhere else in _get_reward
Resolved(completed, expired) == completed \/ expired

GetReward(cur) ==
  LET real == IsRealTask(task_idx, NumReal)
      newly == {k \in DOMAIN cur : cur[k] > 0 /\ k \notin unlocked}
      task_desc == target_achievements[task_idx + 1]
      btask_desc == target_achievements_base[task_idx + 1]
      rep == real /\ isreptask[task_idx + 1]
      watched == IF rep THEN StripCount(btask_desc) ELSE btask_desc
      delta == real /\ QualifyingDelta(cur, past_achievements, watched)
      progress1 == IF rep /\ delta THEN AddProgress(task_progress, task_desc)
                   ELSE task_progress
      completed == IF rep THEN ProgressComplete(progress1) ELSE delta
      task_failed == ~completed
      steps1 == StepsAfterFailure(task_steps, delta)
      expired == task_failed /\ TimedOut(steps1)
  IN  /\ reward' = RewardOf(completed, newly)
      /\ unlocked' = unlocked \cup newly
      /\ follow_achievements' =
           IF completed THEN CreditFollow(follow_achievements, task_desc)
           ELSE follow_achievements
      /\ IF Resolved(completed, expired)
         THEN /\ SpecifyTask
              /\ given_achievements' = UpdateGivenAch(given_achievements, task_idx')
              /\ task_progress' = FloatZero
              /\ age' = 0
              /\ hits' = 0
              /\ resolutions' = resolutions + 1
              /\ resolved_idx' = task_idx
         ELSE /\ task_steps' = steps1
              /\ task_progress' = progress1
              /\ age' = age + 1
              /\ hits' = hits + (IF delta THEN 1 ELSE 0)
              /\ UNCHANGED <<task_idx, task_enc, eval_task_seq, eval_id,
                             given_achievements, resolutions, resolved_idx,
                             evalRecent, passPicks, evalPos>>
      /\ outcome' = IF completed THEN "success"
                    ELSE IF expired THEN "timeout" ELSE "none"
      /\ past_achievements' = Snapshot(cur, past_achievements, completed \/ expired)
      /\ achievements' = cur

\* the episodes explored: the first task of an episode with a fresh inventory
\* to its end, the other tasks for MaxTail steps each
StepExplored ==
  \/ resolutions = 0 /\ inventory = FreshInventory
  \/ resolutions < MaxResolved /\ task_steps < MaxTail

\* the steps in which the player is explored picking an item up: those after
\* the first reassignment of an episode, or with an inventory already in use
InventoryExplored == resolutions > 0 \/ inventory # FreshInventory

Step ==
  /\ player = "Player"
  /\ StepExplored
  /\ \E inc \in SUBSET (DOMAIN achievements) :
       /\ inc # {} => BusyStep
       /\ \A k \in inc : achievements[k] < CountCap(k)
       /\ GetReward([k \in DOMAIN achievements |->
                       achievements[k] + (IF k \in inc THEN 1 ELSE 0)])
  /\ \E got \in SUBSET InventoryItems :
       /\ got # {} => InventoryExplored
       /\ \A k \in got : inventory[k] < MaxItems
       /\ inventory' = [k \in InventoryItems |->
                          inventory[k] + (IF k \in got THEN 1 ELSE 0)]
  /\ UNCHANGED <<target_achievements, target_achievements_base, isreptask,
                 specify_task, player, decoded>>

Next ==
  \/ Reset
  \/ \E train \in BOOLEAN : SetCurriculum(train)
  \/ Step

Spec == Init /\ [][Next]_vars

(***************************************************************************)
(* The encoder and decoder on their own: _encode_task for every random     *)
(* draw, on a freshly constructed environment, then _decode_task on the    *)
(* vector it returned (as render does).                                    *)
(***************************************************************************)
\* every outcome of np.random.choice([0, 1], size=DUMMY_BITS) and of
\* np.random.randint(DUMMY_BITS)
AllDraws ==
  {[bits |-> b, rdn |-> r] : b \in [1..DUMMY_BITS -> {0, 1}],
                             r \in 0..(DUMMY_BITS - 1)}

\* the indices encoded: every real one, the first and the last decoy
EncIdx == RealIdx \cup {NumReal, NumReal + DUMMY_TASKS - 1}

EncodeCall ==
  /\ outcome = "init"
  /\ \E idx \in EncIdx, draw \in AllDraws :
       /\ task_idx' = idx
       /\ task_enc' = EncodeTask(idx, draw)
  /\ outcome' = "encode"
  /\ UNCHANGED <<target_achievements, target_achievements_base, isreptask,
                 specify_task, eval_task_seq, eval_id, task_steps,
                 task_progress, player, achievements, unlocked,
                 past_achievements, follow_achievements, given_achievements,
                 reward, inventory, decoded, age, hits, resolutions,
                 resolved_idx, evalRecent, passPicks, evalPos>>

DecodeCall ==
  /\ outcome = "encode"
  /\ decoded' = DecodeTask(task_enc)
  /\ outcome' = "decode"
  /\ UNCHANGED <<target_achievements, target_achievements_base, isreptask,
                 specify_task, eval_task_seq, eval_id, task_idx, task_enc,
                 task_steps, task_progress, player, achievements, unlocked,
                 past_achievements, follow_achievements, given_achievements,
                 reward, inventory, age, hits, resolutions, resolved_idx,
                 evalRecent, passPicks, evalPos>>

NextEnc == EncodeCall \/ DecodeCall

SpecEnc == InitWith(EncVocabularies) /\ [][NextEnc]_vars

(***************************************************************************)
(* Vocabulary of the properties.                                           *)
(***************************************************************************)
\* the transition is a step (reset and set_curriculum leave other outcomes)
StepTaken == outcome' \in {"success", "timeout", "none"}
\* the transition is a step that resolved its task and assigned the next one
Reassigned == outcome' \in {"success", "timeout"}

ActiveReal == task_idx < NumReal
ActiveRepeat == ActiveReal /\ isreptask[task_idx + 1]
ActiveDesc == target_achievements[task_idx + 1]
\* the repeat count N of the active repeat task
RepeatCount == FloatOfToken(Last(ActiveDesc))
\* the achievement whose increase counts for the active real task
WatchedKey == WatchedOf(CurVocab, task_idx + 1)
\* the simulation raised the count of k in this step
IncreasedNow(k) == achievements'[k] > achievements[k]

(***************************************************************************)
(* C1: for an active repeat task with count N, a step yields reward 1      *)
(* exactly when it carries the N-th qualifying increase of the stripped    *)
(* base achievement since the task was assigned (every earlier step yields *)
(* 0); on that step followCounts of the task grows by exactly 1 and        *)
(* repeatProgress is 0 afterwards.                                         *)
(***************************************************************************)
C1_RepeatRewardOnNth ==
  [][ (StepTaken /\ ActiveRepeat) =>
        LET inc == IncreasedNow(WatchedKey)
            n == hits + (IF inc THEN 1 ELSE 0)
        IN  /\ (reward' = 1) <=> (inc /\ n = RepeatCount)
            /\ reward' = 1 =>
                 /\ follow_achievements' =
                      [follow_achievements EXCEPT ![ActiveDesc] = @ + 1]
                 /\ task_progress' = FloatZero ]_vars

(***************************************************************************)
(* C2: while a real task has had no qualifying increase since it was       *)
(* assigned, the engine keeps it through its first 300 steps and reassigns *)
(* on exactly the 301st; that step's reward is 0 and followCounts is       *)
(* unchanged by it.                                                        *)
(***************************************************************************)
C2_TimeoutOn301st ==
  [][ (StepTaken /\ ActiveReal /\ hits = 0 /\ ~IncreasedNow(WatchedKey)) =>
        /\ reward' = 0
        /\ follow_achievements' = follow_achievements
        /\ IF age < 300
           THEN /\ outcome' = "none"
                /\ task_idx' = task_idx
                /\ task_enc' = task_enc
                /\ given_achievements' = given_achievements
           ELSE /\ age = 300
                /\ outcome' = "timeout"
                /\ task_steps' = 0
                /\ Total(given_achievements') = Total(given_achievements) + 1 ]_vars

\* a non-repeat real task, first of its episode, has just been abandoned
C2_Witness ==
  /\ outcome = "timeout"
  /\ resolutions = 1
  /\ resolved_idx \in RealIdx
  /\ ~isreptask[resolved_idx + 1]
  /\ reward = 0
  /\ Total(follow_achievements) = 0

(***************************************************************************)
(* C3, as claimed: a timeout step leaves givenCounts of the abandoned task *)
(* at the value it had before the step.                                    *)
(***************************************************************************)
C3_GivenOfAbandonedUnchanged ==
  [][ (StepTaken /\ outcome' = "timeout") =>
        given_achievements'[GivenKey(task_idx)] =
          given_achievements[GivenKey(task_idx)] ]_vars

(***************************************************************************)
(* C3, amended: a timeout step leaves givenCounts of the abandoned task    *)
(* unchanged unless the selector picks that same task again, and then      *)
(* raises it by exactly 1 (the count of the new assignment), in curriculum *)
(* and in evaluation mode.                                                 *)
(***************************************************************************)
C3_GivenOfAbandonedUnlessReselected ==
  [][ (StepTaken /\ outcome' = "timeout") =>
        given_achievements'[GivenKey(task_idx)] =
          given_achievements[GivenKey(task_idx)]
            + (IF task_idx' = task_idx THEN 1 ELSE 0) ]_vars

\* in evaluation mode a task was abandoned for a different one
C3_Witness ==
  /\ outcome = "timeout"
  /\ specify_task = "eval"
  /\ task_idx # resolved_idx
  /\ given_achievements[GivenKey(resolved_idx)] = 1
  /\ given_achievements[GivenKey(task_idx)] = 1

(***************************************************************************)
(* The transition invoked the selector while in evaluation mode.           *)
(***************************************************************************)
EvalPick == specify_task = "eval" /\ outcome' \in {"reset", "success", "timeout"}

(***************************************************************************)
(* C4, as claimed: in evaluation mode any len(realTasks) consecutive       *)
(* selector invocations select every real task index exactly once.         *)
(***************************************************************************)
C4_AnyWindowCoversAll ==
  [][ (EvalPick /\ Len(evalRecent) = NumReal - 1) =>
        Range(evalRecent) \cup {task_idx'} = RealIdx ]_vars

(***************************************************************************)
(* C4, amended: a window of len(realTasks) consecutive selector            *)
(* invocations that ends where a pass ends (invocations k*K+1 .. (k+1)*K   *)
(* counted from the switch to evaluation mode) selects every real task     *)
(* index exactly once.                                                     *)
(***************************************************************************)
C4_PassWindowCoversAll ==
  [][ (EvalPick /\ Len(evalRecent) = NumReal - 1 /\ evalPos' = 0) =>
        Range(evalRecent) \cup {task_idx'} = RealIdx ]_vars

\* a step's selector call has just completed a pass over two or more tasks
C4_Witness ==
  /\ specify_task = "eval"
  /\ outcome \in {"success", "timeout"}
  /\ NumReal >= 2
  /\ evalPos = 0
  /\ Len(evalRecent) = NumReal - 1
  /\ task_idx = evalRecent[Len(evalRecent)]

(***************************************************************************)
(* C5: counted from the switch to evaluation mode, no index is selected    *)
(* twice within a pass and a completed pass has selected every real index; *)
(* the cursor is back at 0 exactly when a pass is exhausted and the        *)
(* permutation changes at no other selector call; a reset consumes the     *)
(* next index of the persisting permutation (a pass may span episodes),    *)
(* and a step that does not reassign leaves cursor and permutation alone.  *)
(***************************************************************************)
C5_PassesAndCursor ==
  [][ /\ EvalPick =>
           /\ task_idx' \notin passPicks
           /\ evalPos' = 0 => passPicks \cup {task_idx'} = RealIdx
           /\ eval_id' = evalPos'
           /\ evalPos' # 0 => eval_task_seq' = eval_task_seq
           /\ task_idx' = eval_task_seq[eval_id + 1]
      /\ (StepTaken /\ outcome' = "none") =>
           /\ eval_task_seq' = eval_task_seq
           /\ eval_id' = eval_id ]_vars

\* a reset has completed a pass that an earlier episode began
C5_Witness ==
  /\ specify_task = "eval"
  /\ outcome = "reset"
  /\ NumReal >= 2
  /\ evalPos = 0
  /\ eval_id = 0
  /\ Len(evalRecent) = NumReal - 1

(***************************************************************************)
(* C6: after reset and after every step the snapshot equals the current    *)
(* counter, whatever the step did; and a step credits the active task      *)
(* (reward, or repeat progress) only if the watched achievement increased  *)
(* in that very step.                                                      *)
(***************************************************************************)
C6_SnapshotOfPreviousStep ==
  [][ /\ (StepTaken \/ outcome' = "reset") => past_achievements' = achievements'
      /\ (StepTaken /\ (reward' = 1 \/ (outcome' = "none"
                                        /\ task_progress' # task_progress))) =>
           (ActiveReal /\ IncreasedNow(WatchedKey)) ]_vars

\* a non-repeat task was completed, assigned again, and the next step, with
\* no new increase, did not credit it
C6_Witness ==
  /\ outcome = "none"
  /\ resolutions = 1
  /\ age = 1
  /\ task_idx = resolved_idx
  /\ ActiveReal
  /\ ~isreptask[task_idx + 1]
  /\ follow_achievements[ActiveDesc] = 1
  /\ achievements[WatchedKey] = 1
  /\ reward = 0

(***************************************************************************)
(* C7: the reward returned by every reward computation is exactly 0 or 1.  *)
(***************************************************************************)
C7_RewardZeroOrOne == reward \in {0, 1}

\* a task was completed in an episode in which two counters have increased
C7_Witness ==
  /\ reward = 1
  /\ outcome = "success"
  /\ Cardinality(DOMAIN achievements) = 2
  /\ \A k \in DOMAIN achievements : achievements[k] = 1
  /\ unlocked = DOMAIN achievements

(***************************************************************************)
(* C8: for an active non-repeat real task, a step in which the count of    *)
(* its base achievement increases yields reward 1, raises followCounts of  *)
(* that task by exactly 1 and reassigns at once (one selector call,        *)
(* stepsSinceAssigned 0, no timeout handling); a step in which the count   *)
(* does not increase yields reward 0.                                      *)
(***************************************************************************)
C8_NonRepeatSuccess ==
  [][ (StepTaken /\ ActiveReal /\ ~ActiveRepeat) =>
        IF IncreasedNow(WatchedKey)
        THEN /\ reward' = 1
             /\ outcome' = "success"
             /\ follow_achievements' =
                  [follow_achievements EXCEPT ![ActiveDesc] = @ + 1]
             /\ task_steps' = 0
             /\ given_achievements' =
                  [given_achievements EXCEPT ![GivenKey(task_idx')] = @ + 1]
        ELSE /\ reward' = 0
             /\ follow_achievements' = follow_achievements ]_vars

\* a non-repeat task has just been completed
C8_Witness ==
  /\ outcome = "success"
  /\ reward = 1
  /\ resolved_idx \in RealIdx
  /\ ~isreptask[resolved_idx + 1]
  /\ follow_achievements[target_achievements[resolved_idx + 1]] = 1

(***************************************************************************)
(* C9: every assignment (success, timeout, reset) raises givenCounts of    *)
(* the newly active task or decoy slot by exactly 1 and changes no other   *)
(* entry; within an episode the sum of givenCounts is 1 plus the number of *)
(* resolutions so far.                                                     *)
(***************************************************************************)
C9_GivenCountsAssignments ==
  [][ /\ Reassigned =>
           given_achievements' =
             [given_achievements EXCEPT ![GivenKey(task_idx')] = @ + 1]
      /\ outcome' = "reset" =>
           given_achievements' =
             [k \in GivenKeys |-> IF k = GivenKey(task_idx') THEN 1 ELSE 0]
      /\ player' = "Player" =>
           Total(given_achievements') = 1 + resolutions' ]_vars

\* two reassignments after the reset, one of them to a decoy slot
C9_Witness ==
  /\ resolutions = 2
  /\ Total(given_achievements) = 3
  /\ \E idx \in DrawnDummies : given_achievements[GivenKey(idx)] >= 1

(***************************************************************************)
(* C10: while a decoy is active no step yields reward or changes           *)
(* followCounts, whatever counters increase, and the decoy is replaced     *)
(* only by the timeout.                                                    *)
(***************************************************************************)
C10_DecoyNeverRewarded ==
  [][ (StepTaken /\ ~ActiveReal) =>
        /\ reward' = 0
        /\ follow_achievements' = follow_achievements
        /\ outcome' \in {"none", "timeout"}
        /\ outcome' = "timeout" <=> age = 300
        /\ outcome' = "none" =>
             /\ task_idx' = task_idx
             /\ task_enc' = task_enc
             /\ given_achievements' = given_achievements ]_vars

\* counters have increased under a decoy, which was then abandoned
C10_Witness ==
  /\ outcome = "timeout"
  /\ resolutions = 1
  /\ resolved_idx >= NumReal
  /\ \A k \in DOMAIN achievements : achievements[k] >= 1
  /\ Total(follow_achievements) = 0
  /\ reward = 0

(***************************************************************************)
(* C11: every index the evaluation strategy selects is a real task index;  *)
(* a reset in evaluation mode leaves every decoy entry of givenCounts at   *)
(* 0, and a step in evaluation mode keeps a real active task real and      *)
(* changes no decoy entry, so an episode reset and stepped entirely in     *)
(* evaluation mode never has a decoy active or counted.                    *)
(***************************************************************************)
C11_EvalNeverDecoy ==
  [][ /\ EvalPick => task_idx' \in RealIdx
      /\ (specify_task = "eval" /\ outcome' = "reset") =>
           \A idx \in DrawnDummies : given_achievements'[GivenKey(idx)] = 0
      /\ (specify_task = "eval" /\ StepTaken) =>
           /\ ActiveReal => task_idx' \in RealIdx
           /\ \A idx \in DrawnDummies :
                given_achievements'[GivenKey(idx)] =
                  given_achievements[GivenKey(idx)] ]_vars

\* two tasks were completed in evaluation mode and no decoy has been assigned
C11_Witness ==
  /\ specify_task = "eval"
  /\ outcome = "success"
  /\ resolutions = 2
  /\ task_idx \in RealIdx
  /\ Total(given_achievements) = 3
  /\ \A idx \in DrawnDummies : given_achievements[GivenKey(idx)] = 0

(***************************************************************************)
(* C12: the encoding of a real task index has every trailing DUMMY_BITS    *)
(* position zero; the encoding of a decoy index, for every random draw,    *)
(* has a trailing position set and every leading vocabulary position zero. *)
(***************************************************************************)
C12_DisjointSubspaces ==
  outcome \in {"encode", "decode"} =>
    IF task_idx < NumReal
    THEN \A i \in TrailingBits : task_enc[i] = 0
    ELSE /\ \E i \in TrailingBits : task_enc[i] # 0
         /\ \A i \in (1..EncWidth) \ TrailingBits : task_enc[i] = 0

\* a decoy was encoded from an all-zero bit draw: only the forced bit, here
\* the leftmost trailing position, is set
C12_Witness ==
  /\ outcome = "encode"
  /\ task_idx >= NumReal
  /\ task_enc[EncWidth - DUMMY_BITS + 1] = 1
  /\ \A i \in 1..EncWidth : i # EncWidth - DUMMY_BITS + 1 => task_enc[i] = 0

(***************************************************************************)
(* C13: decoding the encoding of a decoy index gives 'dummy task';         *)
(* decoding the encoding of a real task index gives a space-joined string  *)
(* that is not 'dummy task' and contains every vocabulary word among the   *)
(* tokens of the surface descriptor.                                       *)
(***************************************************************************)
C13_DecodeOfEncode ==
  outcome = "decode" =>
    IF task_idx >= NumReal
    THEN decoded = DUMMY_TEXT
    ELSE /\ decoded # DUMMY_TEXT
         /\ \A w \in Range(target_achievements[task_idx + 1]) \cap Range(ENC_ORDER) :
              w \in Range(decoded)

\* a synonym repeat descriptor was encoded and the vector decoded back to
\* its three words
C13_Witness ==
  /\ outcome = "decode"
  /\ task_idx < NumReal
  /\ target_achievements[task_idx + 1] = <<"gather", "wood", "10">>
  /\ decoded = <<"gather", "wood", "10">>

(***************************************************************************)
(* C14: after reset, whatever state it was called in, every followCounts   *)
(* entry is 0, every givenCounts entry is 0 except that of the selected    *)
(* task or decoy slot, which is 1, stepsSinceAssigned and repeatProgress   *)
(* are 0, the snapshot equals the fresh player's (all-zero) achievement    *)
(* counter, and the selector ran once: in evaluation mode the cursor       *)
(* consumed exactly one entry of the permutation, in curriculum mode it    *)
(* did not move.                                                           *)
(***************************************************************************)
C14_ResetReinitializes ==
  [][ outcome' = "reset" =>
        /\ follow_achievements' = [k \in Range(target_achievements) |-> 0]
        /\ given_achievements' =
             [k \in GivenKeys |-> IF k = GivenKey(task_idx') THEN 1 ELSE 0]
        /\ task_steps' = 0
        /\ task_progress' = FloatZero
        /\ past_achievements' = achievements'
        /\ \A k \in DOMAIN achievements' : achievements'[k] = 0
        /\ IF specify_task = "eval"
           THEN /\ task_idx' = eval_task_seq[eval_id + 1]
                /\ eval_id' = (eval_id + 1) % NumReal
                /\ evalPos' = (evalPos + 1) % NumReal
           ELSE /\ eval_id' = eval_id
                /\ eval_task_seq' = eval_task_seq ]_vars

\* a reset that followed an episode in which tasks were resolved and items
\* picked up: the inventory it carried over is not the fresh one
C14_Witness ==
  /\ outcome = "reset"
  /\ inventory # FreshInventory
  /\ Total(follow_achievements) = 0
  /\ Total(given_achievements) = 1

(***************************************************************************)
(* C15: a step that is neither a success (reward 0) nor a timeout (not the *)
(* 301st step of the task) leaves activeTaskIndex, activeEncoding,         *)
(* givenCounts, followCounts and the evaluation cursor and permutation     *)
(* unchanged and advances stepsSinceAssigned by 1; set_curriculum leaves   *)
(* the active task, its encoding, its step count and progress and both     *)
(* count dictionaries unchanged.                                           *)
(***************************************************************************)
C15_SelectorOnlyOnResolution ==
  [][ /\ (StepTaken /\ reward' = 0 /\ age < TIMEOUT_STEPS) =>
           /\ task_idx' = task_idx
           /\ task_enc' = task_enc
           /\ given_achievements' = given_achievements
           /\ follow_achievements' = follow_achievements
           /\ eval_id' = eval_id
           /\ eval_task_seq' = eval_task_seq
           /\ task_steps' = task_steps + 1
      /\ outcome' = "set_curriculum" =>
           /\ task_idx' = task_idx
           /\ task_enc' = task_enc
           /\ task_steps' = task_steps
           /\ task_progress' = task_progress
           /\ given_achievements' = given_achievements
           /\ follow_achievements' = follow_achievements ]_vars

\* in evaluation mode a repeat task has taken two qualifying increases in
\* three steps without being resolved
C15_Witness ==
  /\ specify_task = "eval"
  /\ outcome = "none"
  /\ ActiveRepeat
  /\ hits = 2
  /\ task_steps = 3
  /\ Total(given_achievements) = 1

(***************************************************************************)
(* C16: after reset and at the end of every step repeatProgress is in      *)
(* [0, 1); it is 0 whenever the active task was assigned by that reset or  *)
(* step; and it is nonzero only while a repeat task is active.             *)
(***************************************************************************)
C16_ProgressInUnitInterval ==
  /\ \A i \in 1..3 : task_progress[i] >= 0
  /\ ~FloatGE1(task_progress)
  /\ outcome \in {"reset", "success", "timeout"} => task_progress = FloatZero
  /\ task_progress # FloatZero => ActiveRepeat

\* a count-5 repeat task one increase short of completion: progress 0.8
C16_Witness ==
  /\ outcome = "none"
  /\ ActiveRepeat
  /\ RepeatCount = 5
  /\ hits = 4
  /\ task_progress # FloatZero
  /\ FloatGE1(FloatAdd(task_progress, FloatInv(RepeatCount)))

(***************************************************************************)
(* C17: reset gives the new player either the fresh inventory or the       *)
(* previous player's; a reset in evaluation mode, and the first reset      *)
(* after construction, always give the fresh one, so an inventory is       *)
(* carried over only in curriculum mode with a previous player.            *)
(***************************************************************************)
C17_InventoryCarriedOnlyInCurriculum ==
  [][ outcome' = "reset" =>
        /\ (specify_task = "eval" \/ player = "None") =>
             inventory' = FreshInventory
        /\ inventory' # FreshInventory =>
             /\ specify_task = "curri"
             /\ player = "Player"
             /\ inventory' = inventory ]_vars

\* a curriculum-mode reset has carried an item into the new episode
C17_Witness ==
  /\ outcome = "reset"
  /\ specify_task = "curri"
  /\ player = "Player"
  /\ inventory["wood"] = 1
  /\ task_steps = 0

(***************************************************************************)
(* C18: after reset and at the end of every step stepsSinceAssigned is in  *)
(* 0..300 and equals the number of steps taken since the active task was   *)
(* assigned; a step without reward keeps the task while fewer than 300     *)
(* steps have passed and replaces it when it is the 301st, for real tasks  *)
(* and decoys alike and whether or not the task has made progress.         *)
(***************************************************************************)
C18_ReplacedBy301stStep ==
  [][ /\ (StepTaken \/ outcome' = "reset") =>
           /\ task_steps' \in 0..TIMEOUT_STEPS
           /\ task_steps' = age'
      /\ (StepTaken /\ reward' = 0) =>
           IF age < TIMEOUT_STEPS
           THEN task_idx' = task_idx /\ age' = age + 1
           ELSE outcome' = "timeout" /\ task_steps' = 0 ]_vars

\* a repeat task, first of its episode, was abandoned although its watched
\* achievement had increased while it was active
C18_Witness ==
  /\ outcome = "timeout"
  /\ resolutions = 1
  /\ resolved_idx \in RealIdx
  /\ isreptask[resolved_idx + 1]
  /\ achievements[WatchedOf(CurVocab, resolved_idx + 1)] >= 2
  /\ Total(follow_achievements) = 0
  /\ task_steps = 0

(***************************************************************************)
(* C19: in every state of an episode followCounts[t] <= givenCounts[t] for *)
(* every real task t; and the sum of followCounts is the reward emitted    *)
(* since the last reset: reset makes it 0 and every step adds its reward.  *)
(***************************************************************************)
C19_FollowWithinGiven ==
  [][ /\ player' = "Player" =>
           \A idx \in RealIdx :
             follow_achievements'[target_achievements[idx + 1]] <=
               given_achievements'[GivenKey(idx)]
      /\ outcome' = "reset" => Total(follow_achievements') = 0
      /\ StepTaken =>
           Total(follow_achievements') = Total(follow_achievements) + reward' ]_vars

\* two completions in one episode; the task completed last is no longer
\* active and has been completed as often as it was assigned
C19_Witness ==
  /\ outcome = "success"
  /\ resolutions = 2
  /\ Total(follow_achievements) = 2
  /\ resolved_idx \in RealIdx
  /\ task_idx # resolved_idx
  /\ follow_achievements[target_achievements[resolved_idx + 1]] =
       given_achievements[GivenKey(resolved_idx)]

(***************************************************************************)
(* C20: after reset and at the end of every step the encoding in the       *)
(* observation has a trailing DUMMY_BITS position set if and only if       *)
(* activeTaskIndex is a decoy index, and for a real activeTaskIndex it is  *)
(* the bag-of-words vector of that index's surface descriptor.             *)
(***************************************************************************)
C20_EncodingMatchesActiveTask ==
  player = "Player" =>
    /\ (\E i \in TrailingBits : ObsTaskEnc[i] # 0) <=> task_idx >= NumReal
    /\ task_idx < NumReal =>
         ObsTaskEnc =
           [i \in 1..EncWidth |->
              IF /\ i <= Len(ENC_ORDER)
                 /\ ENC_ORDER[i] \in Range(target_achievements[task_idx + 1])
              THEN 1 ELSE 0]

\* a decoy was abandoned for a real task, whose words the encoding now shows
C20_Witness ==
  /\ outcome = "timeout"
  /\ resolved_idx >= NumReal
  /\ task_idx < NumReal
  /\ \E i \in 1..Len(ENC_ORDER) : ObsTaskEnc[i] = 1
  /\ \A i \in TrailingBits : ObsTaskEnc[i] = 0

====
